---- MODULE Spec2Model ----
(***************************************************************************)
(* Model of the async workflow orchestrator: the state machine engine of   *)
(* WorkflowOrchestrator, its per-run event loop (process_events), the      *)
(* facade operations execute_automatic / execute_next_step, the API        *)
(* operations start / next / cancel / retry, the persisted workflow record *)
(* and transition log, and the WorkerManager thread pool.                  *)
(*                                                                         *)
(* Scheduling model.  All coroutines (API handlers, background runs and    *)
(* their event loops) share one asyncio thread: a coroutine step runs      *)
(* from one suspension point to the next without interleaving.  Applying   *)
(* a trigger is a synchronous call made of a before-hook, the state        *)
(* change and an after-hook; the model shows the point between the state   *)
(* change and the after-hook as an intermediate state in which no other    *)
(* coroutine may step.  Pool workers are threads and step freely.          *)
(***************************************************************************)
EXTENDS Integers, Sequences, FiniteSets, TLC

(* ------------------------------ bounds --------------------------------- *)
MaxRuns == 2
MaxLog == 5
MaxWorkers == 2
MaxTasks == 3
MaxSubmissions == 3
MaxEvents == 3
MaxShutdowns == 2

(* --------------------------- basic domains ----------------------------- *)
WorkflowIds == {1}
Runs == 1..MaxRuns
Workers == 1..MaxWorkers
TaskIds == 1..MaxTasks

NoneVal == "<None>"
Absent == "<absent>"

states == <<"INIT", "PREPARE", "EXECUTE", "VALIDATE", "COMPLETE", "FAILED", "CANCELLED">>

StateSet == {states[i] : i \in 1..Len(states)}

STATE_TASKS == [INIT |-> "initialize", PREPARE |-> "prepare", EXECUTE |-> "execute",
                VALIDATE |-> "validate", COMPLETE |-> "complete"]

\* A lookup that gives every state the task of INIT.
TaskTypeInitialize(s) == STATE_TASKS["INIT"]

\* STATE_TASKS.get(state, 'default')
TaskTypeOf(s) == IF s \in DOMAIN STATE_TASKS THEN STATE_TASKS[s] ELSE "default"

\* The transition table.  `plain` tells a source written as one string from a
\* source written as a list: get_next_trigger compares the declared source
\* with the state by ==, which a list never satisfies.
transitions == <<
  [trigger |-> "prepare",  source |-> {"INIT"},     plain |-> TRUE,  dest |-> "PREPARE",
   before |-> "_on_state_enter", after |-> "_log_transition"],
  [trigger |-> "execute",  source |-> {"PREPARE"},  plain |-> TRUE,  dest |-> "EXECUTE",
   before |-> "_on_state_enter", after |-> "_log_transition"],
  [trigger |-> "validate", source |-> {"EXECUTE"},  plain |-> TRUE,  dest |-> "VALIDATE",
   before |-> "_on_state_enter", after |-> "_log_transition"],
  [trigger |-> "complete", source |-> {"VALIDATE"}, plain |-> TRUE,  dest |-> "COMPLETE",
   before |-> "_on_complete", after |-> "_log_transition"],
  [trigger |-> "fail",     source |-> {"INIT", "PREPARE", "EXECUTE", "VALIDATE"}, plain |-> FALSE,
   dest |-> "FAILED", before |-> "_on_fail", after |-> "_log_transition"],
  [trigger |-> "cancel",   source |-> {"INIT", "PREPARE", "EXECUTE", "VALIDATE"}, plain |-> FALSE,
   dest |-> "CANCELLED", before |-> "_on_cancel", after |-> "_log_transition"],
  [trigger |-> "retry",    source |-> {"FAILED"},   plain |-> TRUE,  dest |-> "INIT",
   before |-> Absent, after |-> Absent] >>

Triggers == {transitions[i].trigger : i \in 1..Len(transitions)}

TransitionOf(t) == transitions[CHOOSE i \in 1..Len(transitions) : transitions[i].trigger = t]

SourceOf(t) == TransitionOf(t).source

DestOf(t) == TransitionOf(t).dest

\* Error texts a failing task may carry: str(e) of the exception it raised.
TaskErrors == {"", "boom"}

\* kwargs of an event: the value of its 'error' key, or Absent.
Kwargs == {Absent} \cup TaskErrors

NoTransition == [source |-> Absent, dest |-> Absent, trigger |-> Absent]

NoFire == [run |-> 0, trigger |-> Absent, from |-> Absent, raised |-> FALSE]

\* A submission to the pool: the future one executor.submit call returns.
\* Run r submits at most one task of each type; a Task row is submitted once.
WorkflowTaskTypes == {"initialize", "prepare", "execute", "validate"}

SubIds == [kind : {"workflow"}, id : Runs, task_type : WorkflowTaskTypes]
            \cup [kind : {"task"}, id : TaskIds, task_type : {Absent}]

NoSub == [kind |-> Absent, id |-> 0, task_type |-> Absent]

WorkflowSub(r, tt) == [kind |-> "workflow", id |-> r, task_type |-> tt]

TaskSub(t) == [kind |-> "task", id |-> t, task_type |-> Absent]

VARIABLES
  db,            \* workflows table: [WorkflowIds -> row]
  log,           \* workflow_transitions table, in creation order, per workflow
  orch,          \* the WorkflowOrchestrator objects and the coroutines driving them
  work_queue,    \* ThreadPoolExecutor's FIFO of submitted work items
  worker,        \* what each pool thread is executing
  future,        \* the Future of every submission
  tasks,         \* tasks table: [TaskIds -> row]
  active_tasks,  \* WorkerManager.active_tasks (its keys)
  submitting,    \* submit_task calls between executor.submit and the active_tasks store
  shut,          \* WorkerManager._shutdown / the executor's shutdown flag, and the calls of shutdown
  hist           \* observation of the run, read by the properties only

vars == <<db, log, orch, work_queue, worker, future, tasks, active_tasks, submitting, shut, hist>>

poolVars == <<work_queue, worker, future, tasks, active_tasks, submitting, shut>>

(* ------------------------- persisted records --------------------------- *)
\* A Workflow row as routes.create_workflow / the test fixtures create it.
NewWorkflow(s) == [status |-> s, current_state |-> s, retries |-> 0, started_at |-> 0,
                   completed_at |-> 0, error_message |-> NoneVal]

\* datetime.now(): the model's clock of workflow w is the number of writes its
\* log has seen, so a later write carries a later stamp.
Now(w) == Len(log[w]) + 1

(* --------------------------- engine (Machine) -------------------------- *)
\* An engine that accepts every trigger from every state.
MayTriggerAny(s, t) == s \in StateSet

\* Machine trigger: legal iff the engine state is in the declared source set.
MayTrigger(s, t) == s \in SourceOf(t)

\* The facade object a constructor call builds for workflow w: the engine
\* starts at the persisted status, queue empty, not running.
Constructed(w, k) ==
  [kind |-> k, workflow_id |-> w, state |-> db[w].status, event_queue |-> <<>>,
   running |-> FALSE, task_results |-> {}, started_cache |-> db[w].started_at,
   pc |-> "idle", loop |-> "none", cur |-> NoTransition, seq_state |-> 0,
   awaiting |-> NoSub, ret |-> NoneVal, logged |-> FALSE]

FreeRun ==
  [kind |-> "free", workflow_id |-> 0, state |-> Absent, event_queue |-> <<>>,
   running |-> FALSE, task_results |-> {}, started_cache |-> 0,
   pc |-> "free", loop |-> "none", cur |-> NoTransition, seq_state |-> 0,
   awaiting |-> NoSub, ret |-> NoneVal, logged |-> FALSE]

(* ------------------------- transition callbacks ------------------------ *)
\* A callback that stamps started_at at every entry.
on_state_enter_always(rec, cache, now) ==
  [rec |-> [rec EXCEPT !.started_at = now], cache |-> now]

\* _on_state_enter: started_at is written only while the facade's loaded
\* workflow object shows none.
on_state_enter(rec, cache, now) ==
  IF cache = 0
    THEN [rec |-> [rec EXCEPT !.started_at = now], cache |-> now]
    ELSE [rec |-> rec, cache |-> cache]

on_complete(rec, now) == [rec EXCEPT !.completed_at = now]

\* str(event.kwargs.get('error', 'Unknown error')): the default stands in only
\* for a missing key, not for an empty text.
FailText(err) == IF err = Absent THEN "Unknown error" ELSE err

on_fail(rec, now, err) == [rec EXCEPT !.completed_at = now, !.error_message = FailText(err)]

on_cancel(rec, now) == [rec EXCEPT !.completed_at = now]

\* _on_retry is defined by the orchestrator but no transition names it.
on_retry(rec) == [rec EXCEPT !.retries = @ + 1, !.error_message = NoneVal,
                             !.completed_at = 0, !.started_at = 0]

\* The 'before' callback of a transition, applied to the persisted record.
BeforeHook(name, rec, cache, now, err) ==
  CASE name = "_on_state_enter" -> on_state_enter(rec, cache, now)
    [] name = "_on_complete"    -> [rec |-> on_complete(rec, now), cache |-> cache]
    [] name = "_on_fail"        -> [rec |-> on_fail(rec, now, err), cache |-> cache]
    [] name = "_on_cancel"      -> [rec |-> on_cancel(rec, now), cache |-> cache]
    [] OTHER                    -> [rec |-> rec, cache |-> cache]

\* The record _log_transition writes for a transition.
TransitionRecord(tr) == [from_state |-> tr.source, to_state |-> tr.dest, trigger |-> tr.trigger]

\* An update that writes the status column alone.
StatusOnlyUpdate(rec, dest) == [rec EXCEPT !.status = dest]

\* An update that also counts the transition in the retries column.
StatusUpdateCounting(rec, dest) ==
  [rec EXCEPT !.status = dest, !.current_state = dest, !.retries = @ + 1]

\* _log_transition's update of the workflow row.
StatusUpdate(rec, dest) == [rec EXCEPT !.status = dest, !.current_state = dest]

(* ------------------------- applying a trigger -------------------------- *)
\* The synchronous call orchestrator.<t>(**kwargs) up to and including the
\* state change: o is the facade, rec the persisted row.  An illegal trigger
\* raises MachineError and leaves everything as it was.
TriggerCall(o, rec, now, t, err) ==
  LET tr == TransitionOf(t)
      hooked == BeforeHook(tr.before, rec, o.started_cache, now, err)
  IN IF MayTrigger(o.state, t)
       THEN [raised |-> FALSE,
             rec |-> hooked.rec,
             o |-> [o EXCEPT !.state = tr.dest,
                             !.started_cache = hooked.cache,
                             !.cur = IF tr.after = "_log_transition"
                                       THEN [source |-> o.state, dest |-> tr.dest, trigger |-> t]
                                       ELSE NoTransition]]
       ELSE [raised |-> TRUE, rec |-> rec, o |-> o]

\* An asyncio thread that a facade waiting for its task result keeps for
\* itself, as a plain future.result() on that thread would.
LoopThreadHeldByWaiter ==
  \A r \in Runs : orch[r].cur = NoTransition /\ orch[r].pc # "await_result"

\* No trigger call of any coroutine is between its state change and its
\* after-hook: the asyncio thread is free to run another step.
LoopThreadFree == \A r \in Runs : orch[r].cur = NoTransition

\* A caller outside the event loop calls a trigger method of facade r
\* (the unit tests and the retry endpoint do).
DirectFire(r, t, err) ==
  LET o == orch[r]
      w == o.workflow_id
      res == TriggerCall(o, db[w], Now(w), t, err)
  IN /\ o.kind = "direct"
     /\ LoopThreadFree
     /\ Len(log[w]) < MaxLog
     /\ db' = [db EXCEPT ![w] = res.rec]
     /\ orch' = [orch EXCEPT ![r] = res.o]
     /\ hist' = [hist EXCEPT !.fired = [run |-> r, trigger |-> t, from |-> o.state,
                                        raised |-> res.raised],
                             !.inflight[r] = IF res.o.cur # NoTransition THEN @ + 1 ELSE @]
     /\ UNCHANGED <<log, poolVars>>

\* The first commit of the after-hook _log_transition of the transition
\* facade r is applying: transition_dao.create adds the record and commits.
LogRecord(r) ==
  LET o == orch[r]
      w == o.workflow_id
  IN /\ o.cur # NoTransition
     /\ ~o.logged
     /\ log' = [log EXCEPT ![w] = Append(@, TransitionRecord(o.cur))]
     /\ orch' = [orch EXCEPT ![r].logged = TRUE]
     /\ UNCHANGED <<db, hist, poolVars>>

\* An after-hook whose update is not filtered by the workflow id: it writes
\* the destination into every row.
AfterHookAllRows(r) ==
  LET o == orch[r]
      w == o.workflow_id
  IN /\ o.cur # NoTransition
     /\ o.logged
     /\ db' = [v \in DOMAIN db |-> StatusUpdate(db[v], o.cur.dest)]
     /\ log' = log
     /\ orch' = [orch EXCEPT ![r] =
                   LET o2 == [o EXCEPT !.cur = NoTransition, !.logged = FALSE,
                                       !.started_cache = db[w].started_at]
                   IN IF o.loop = "applying"
                        THEN [o2 EXCEPT !.loop = IF o.running THEN "waiting" ELSE "exited"]
                        ELSE o2]
     /\ hist' = [hist EXCEPT !.inflight[r] = @ - 1]
     /\ UNCHANGED poolVars

\* The rest of _log_transition: workflow_dao.update writes the row and
\* commits, the facade reloads its workflow object, and the trigger call
\* returns.
AfterHook(r) ==
  LET o == orch[r]
      w == o.workflow_id
  IN /\ o.cur # NoTransition
     /\ o.logged
     /\ db' = [db EXCEPT ![w] = StatusUpdate(@, o.cur.dest)]
     /\ log' = log
     /\ orch' = [orch EXCEPT ![r] =
                   LET o2 == [o EXCEPT !.cur = NoTransition, !.logged = FALSE,
                                       !.started_cache = db[w].started_at]
                   IN IF o.loop = "applying"
                        THEN [o2 EXCEPT !.loop = IF o.running THEN "waiting" ELSE "exited"]
                        ELSE o2]
     /\ hist' = [hist EXCEPT !.inflight[r] = @ - 1]
     /\ UNCHANGED poolVars

(* ------------------------------ history -------------------------------- *)
HistEmit(h, r, evs) == [h EXCEPT !.pending[r] = @ \o evs]

\* The events a step appended to a queue that was q and is q2.
Appended(q, q2) == SubSeq(q2, Len(q) + 1, Len(q2))

(* ----------------------------- event queue ----------------------------- *)
Event(name, err) == [name |-> name, error |-> err]

\* emit_event: asyncio.Queue.put on an unbounded queue.
emit_event(o, name, err) == [o EXCEPT !.event_queue = Append(@, Event(name, err))]

\* A queue that hands out its newest item.
QueueGetNewest(q) == Len(q)

\* asyncio.Queue.get: the position of the item handed out, the oldest.
QueueGet(q) == 1

RemoveAt(q, i) == SubSeq(q, 1, i - 1) \o SubSeq(q, i + 1, Len(q))

\* A lookup that answers with the first trigger of the table for every state.
first_trigger(s) == transitions[1].trigger

\* A lookup that takes the last transition whose source set holds the state.
last_trigger_from(s) ==
  LET hits == {i \in 1..Len(transitions) : s \in transitions[i].source}
  IN IF hits = {} THEN NoneVal
     ELSE transitions[CHOOSE i \in hits : \A j \in hits : i >= j].trigger

\* get_next_trigger: the first transition whose declared source equals the state.
get_next_trigger(s) ==
  LET hits == {i \in 1..Len(transitions) : transitions[i].plain /\ transitions[i].source = {s}}
  IN IF hits = {} THEN NoneVal
     ELSE transitions[CHOOSE i \in hits : \A j \in hits : i <= j].trigger

\* A facade that never enqueues a next trigger.
advance_nowhere(o) == o

\* advance_to_next_state: enqueue the next trigger of the engine state, if any.
advance_to_next_state(o) ==
  LET nt == get_next_trigger(o.state)
  IN IF nt # NoneVal THEN emit_event(o, nt, Absent) ELSE o

\* get_status on facade r, called between trigger calls: the row is read
\* again and next_trigger is asked of the engine's own state.
NoStatus == [state |-> Absent, status |-> Absent, next_trigger |-> Absent]

GetStatus(r) ==
  LET o == orch[r]
      w == o.workflow_id
  IN /\ o.kind = "direct"
     /\ LoopThreadFree
     /\ hist' = [hist EXCEPT !.status = [state |-> o.state, status |-> db[w].status,
                                         next_trigger |-> get_next_trigger(o.state)]]
     /\ UNCHANGED <<db, log, orch, poolVars>>

workflow_sequence == <<"INIT", "PREPARE", "EXECUTE", "VALIDATE", "COMPLETE">>

\* workflow_sequence.index(state); 0 stands for the ValueError it raises.
IndexOf(s) ==
  IF \E i \in 1..Len(workflow_sequence) : workflow_sequence[i] = s
    THEN CHOOSE i \in 1..Len(workflow_sequence) : workflow_sequence[i] = s
    ELSE 0

TerminalStates == {"COMPLETE", "FAILED", "CANCELLED"}

(* ------------------------------ worker pool ---------------------------- *)
\* executor.submit: the work item joins the executor's queue.
Submit(sub) ==
  /\ work_queue' = Append(work_queue, sub)
  /\ future' = [future EXCEPT ![sub].st = "pending"]

\* A pool thread may take a work item whether or not it is executing one.
WorkerMayTakeAlways(k) == work_queue # <<>>

\* A pool thread takes a work item only when it is executing none.
WorkerMayTake(k) == worker[k] = NoSub /\ work_queue # <<>>

\* A pool thread takes the oldest work item and starts executing it:
\* _execute_workflow_task, or _execute_task up to 'status = RUNNING'.
WorkerTake(k) ==
  LET sub == Head(work_queue)
  IN /\ WorkerMayTake(k)
     /\ work_queue' = Tail(work_queue)
     /\ worker' = [worker EXCEPT ![k] = sub]
     /\ future' = [future EXCEPT ![sub].st = "running", ![sub].runs = @ + 1]
     /\ tasks' = IF sub.kind = "task" THEN [tasks EXCEPT ![sub.id].status = "running"] ELSE tasks
     /\ UNCHANGED <<db, log, orch, active_tasks, submitting, shut, hist>>

\* What the task logic does: it returns (Absent) or raises an exception
\* whose text is in TaskErrors.
LogicOutcomes == {Absent} \cup TaskErrors

\* A result that reports success whatever the task logic did.
TaskResultLost(kind, raisedErr) == [success |-> TRUE, error |-> Absent]

\* What the work item returns.  _execute_workflow_task: {"success": True, ...}
\* or, when the task logic raised, {"success": False, "error": str(e)}.
\* _execute_task: True, or False when the task logic raised.
TaskResult(kind, raisedErr) ==
  IF raisedErr = Absent THEN [success |-> TRUE, error |-> Absent]
  ELSE IF kind = "workflow" THEN [success |-> FALSE, error |-> raisedErr]
  ELSE [success |-> FALSE, error |-> Absent]

\* A row written as COMPLETED whatever the task logic did.
TaskRowCompleted(raisedErr) == [status |-> "completed", error_message |-> NoneVal]

\* The Task row _execute_task commits at its end: COMPLETED, or FAILED with
\* str(e) when the task logic raised.
TaskRowAfter(raisedErr) ==
  IF raisedErr = Absent
    THEN [status |-> "completed", error_message |-> NoneVal]
    ELSE [status |-> "failed", error_message |-> raisedErr]

\* The pool thread finishes its work item and the future gets its outcome.
\* For a Task row: COMPLETED and True, or FAILED with the error text and
\* False; in both cases the task leaves active_tasks.
WorkerFinish(k, raisedErr) ==
  LET sub == worker[k]
      res == TaskResult(sub.kind, raisedErr)
  IN /\ sub # NoSub
     /\ worker' = [worker EXCEPT ![k] = NoSub]
     /\ future' = [future EXCEPT ![sub].st = "done", ![sub].success = res.success,
                                 ![sub].error = res.error, ![sub].sets = @ + 1,
                                 ![sub].raised = raisedErr]
     /\ tasks' = IF sub.kind = "task"
                   THEN [tasks EXCEPT ![sub.id] = TaskRowAfter(raisedErr)]
                   ELSE tasks
     /\ active_tasks' = IF sub.kind = "task" THEN active_tasks \ {sub.id} ELSE active_tasks
     /\ UNCHANGED <<db, log, orch, work_queue, submitting, shut, hist>>

\* The number of submissions the executor has accepted.
Accepted == Cardinality({sub \in SubIds : future[sub].st # "none"})

\* submit_workflow_task called by a client of the pool.
SubmitWorkflowTask(r, tt) ==
  /\ future[WorkflowSub(r, tt)].st = "none"
  /\ Accepted < MaxSubmissions
  /\ ~shut.flag
  /\ Submit(WorkflowSub(r, tt))
  /\ UNCHANGED <<db, log, orch, worker, tasks, active_tasks, submitting, shut, hist>>

\* submit_task up to executor.submit: the row is QUEUED and the work item is
\* in the executor's queue.  After shutdown executor.submit raises
\* RuntimeError: the row is QUEUED and nothing was submitted.
SubmitTask(t) ==
  /\ future[TaskSub(t)].st = "none"
  /\ Accepted < MaxSubmissions
  /\ tasks' = [tasks EXCEPT ![t].status = "queued"]
  /\ IF shut.flag
       THEN UNCHANGED <<work_queue, future, submitting>>
       ELSE Submit(TaskSub(t)) /\ submitting' = submitting \cup {t}
  /\ UNCHANGED <<db, log, orch, worker, active_tasks, shut, hist>>

\* submit_task's 'self.active_tasks[task_id] = future'.
RegisterActive(t) ==
  /\ t \in submitting
  /\ active_tasks' = active_tasks \cup {t}
  /\ submitting' = submitting \ {t}
  /\ UNCHANGED <<db, log, orch, work_queue, worker, future, tasks, shut, hist>>

\* A join that does not wait for the pool threads.
ThreadsEndedAtOnce == TRUE

\* The executor's threads have ended: after shutdown a thread ends when it
\* finds the work queue empty, so every work item was taken and finished.
ThreadsEnded == work_queue = <<>> /\ \A k \in Workers : worker[k] = NoSub

\* shutdown(wait): the flags are set; with wait the caller then joins the
\* executor's threads.  One client makes the calls, one after the other.
ShutdownCall(wait) ==
  /\ ~shut.joining
  /\ Len(shut.waits) < MaxShutdowns
  /\ shut' = [flag |-> TRUE, joining |-> wait, waits |-> Append(shut.waits, wait)]
  /\ UNCHANGED <<db, log, orch, work_queue, worker, future, tasks, active_tasks, submitting, hist>>

\* executor.shutdown(wait=True) returns.
ShutdownReturn ==
  /\ shut.joining
  /\ ThreadsEnded
  /\ shut' = [shut EXCEPT !.joining = FALSE]
  /\ UNCHANGED <<db, log, orch, work_queue, worker, future, tasks, active_tasks, submitting, hist>>

\* WorkerManager.task_queue: created empty by __init__; no code puts into it
\* or takes from it (the work items wait in the executor's own queue).
task_queue == <<>>

\* get_queue_size: task_queue.qsize()
get_queue_size == Len(task_queue)

\* get_active_count: len(active_tasks)
get_active_count == Cardinality(active_tasks)

(* ------------------------------ event loop ----------------------------- *)
\* A check that lets the loop go on while events wait in its queue.
DrainCheck(o) ==
  [o EXCEPT !.loop = IF o.running \/ o.event_queue # <<>> THEN "waiting" ELSE "exited"]

\* 'while self._running' after an event or a timeout.
FlagCheck(o) == [o EXCEPT !.loop = IF o.running THEN "waiting" ELSE "exited"]

\* process_events starts: it sets _running itself.
LoopStart(r) ==
  /\ orch[r].loop = "created"
  /\ LoopThreadFree
  /\ orch' = [orch EXCEPT ![r].running = TRUE, ![r].loop = "waiting"]
  /\ UNCHANGED <<db, log, poolVars, hist>>

\* A handler that answers a raising trigger with a retry event.
OnTriggerErrorRetry(o, text) == emit_event(o, "retry", text)

\* A handler that swallows the exception of a trigger call.
OnTriggerErrorSwallow(o, text) == o

\* process_events' 'except Exception': the error text goes into a new fail
\* event at the end of the queue.
OnTriggerError(o, text) == emit_event(o, "fail", text)

\* Attributes of the facade object that are not trigger methods: workflow_id
\* is the integer __init__ stores.
DataAttributes == {"workflow_id"}

\* hasattr(self, event_name)
HasAttr(name) == name \in Triggers \cup DataAttributes

\* process_events receives an event and calls the attribute of that name.  A
\* name the object has no attribute for is logged and dropped; calling an
\* attribute that is no method raises TypeError; an exception of the call is
\* turned into a new fail event carrying its text.
LoopEvent(r) ==
  LET o == orch[r]
      w == o.workflow_id
      i == QueueGet(o.event_queue)
      ev == o.event_queue[i]
      o1 == [o EXCEPT !.event_queue = RemoveAt(@, i)]
      res == TriggerCall(o1, db[w], Now(w), ev.name, ev.error)
      o2 == IF ~HasAttr(ev.name) THEN FlagCheck(o1)
            ELSE IF ev.name \notin Triggers
              THEN FlagCheck(OnTriggerError(o1, "'int' object is not callable"))
            ELSE IF res.raised THEN FlagCheck(OnTriggerError(o1, "MachineError"))
            ELSE IF res.o.cur # NoTransition THEN [res.o EXCEPT !.loop = "applying"]
            ELSE FlagCheck(res.o)
      known == ev.name \in Triggers
  IN /\ o.loop = "waiting"
     /\ o.event_queue # <<>>
     /\ LoopThreadFree
     /\ orch' = [orch EXCEPT ![r] = o2]
     /\ db' = IF known THEN [db EXCEPT ![w] = res.rec] ELSE db
     /\ hist' = [hist EXCEPT
                   !.fifo[r] = @ /\ hist.pending[r][1] = ev,
                   !.pending[r] = Tail(@) \o Appended(o1.event_queue, o2.event_queue),
                   !.inflight[r] = IF o2.cur # NoTransition THEN @ + 1 ELSE @,
                   !.raised[r] = @ \/ (known /\ res.raised) \/ (HasAttr(ev.name) /\ ~known)]
     /\ UNCHANGED <<log, poolVars>>

\* wait_for(queue.get(), 1.0) times out with the stop flag set: the loop ends.
\* (With the flag still set to run, a timeout changes nothing.)
LoopTimeout(r) ==
  /\ orch[r].loop = "waiting"
  /\ orch[r].event_queue = <<>>
  /\ ~orch[r].running
  /\ LoopThreadFree
  /\ orch' = [orch EXCEPT ![r].loop = "exited"]
  /\ UNCHANGED <<db, log, poolVars, hist>>

(* ------------------- execute_automatic / execute_next_step ------------- *)
\* result.get('error', 'Task execution failed')
ResultError(f) == IF f.error = Absent THEN "Task execution failed" ELSE f.error

\* A test that takes every result for a success.
TaskFailedNever(f) == FALSE

\* 'if not result.get('success', False)'
TaskFailed(f) == ~f.success

\* A test that lets execute_next_step run from every state.
NextStepRefusedNever(s) == FALSE

\* execute_next_step's terminal-state test.
NextStepRefused(s) == s \in TerminalStates

\* One pass of execute_automatic's for loop at workflow_sequence[o.seq_state],
\* up to its next suspension: the facade after it and the task it submits.
Iterate(o, r) ==
  LET st == workflow_sequence[o.seq_state]
  IN IF st = "COMPLETE"
       THEN [o |-> [advance_to_next_state(o) EXCEPT !.running = FALSE, !.pc = "await_loop",
                                                     !.ret = "True"],
             submit |-> NoSub]
       ELSE [o |-> [o EXCEPT !.pc = "await_result", !.awaiting = WorkflowSub(r, TaskTypeOf(st))],
             submit |-> WorkflowSub(r, TaskTypeOf(st))]

\* execute_workflow_background / execute_next_step_background start: the
\* facade is constructed from the persisted row as it is now, and the
\* operation runs to its first suspension.
BackgroundBegin(o0, r) ==
  IF o0.kind = "auto"
    THEN IF IndexOf(o0.state) = 0
           THEN [o |-> [emit_event(o0, "fail", "ValueError")
                          EXCEPT !.loop = "created", !.running = FALSE, !.pc = "done",
                                 !.ret = "False"],
                 submit |-> NoSub]
           ELSE Iterate([o0 EXCEPT !.loop = "created", !.seq_state = IndexOf(o0.state)], r)
    ELSE IF NextStepRefused(o0.state)
           THEN [o |-> [o0 EXCEPT !.pc = "done", !.ret = "False"], submit |-> NoSub]
           ELSE [o |-> [o0 EXCEPT !.loop = "created", !.seq_state = IndexOf(o0.state),
                                  !.pc = "await_result",
                                  !.awaiting = WorkflowSub(r, TaskTypeOf(o0.state))],
                 submit |-> WorkflowSub(r, TaskTypeOf(o0.state))]

\* The pool and history part of a facade step that may submit one task.
SubmitOf(r, step) ==
  IF step.submit = NoSub
    THEN /\ UNCHANGED <<work_queue, future>>
         /\ hist' = HistEmit(hist, r, Appended(orch[r].event_queue, step.o.event_queue))
    ELSE /\ Submit(step.submit)
         /\ hist' = [HistEmit(hist, r, Appended(orch[r].event_queue, step.o.event_queue))
                       EXCEPT !.submitted[r] = Append(@, step.submit.task_type)]

BackgroundStart(r) ==
  LET o == orch[r]
      step == BackgroundBegin([Constructed(o.workflow_id, o.kind) EXCEPT !.pc = "begin"], r)
  IN /\ o.pc = "scheduled"
     /\ LoopThreadFree
     /\ orch' = [orch EXCEPT ![r] = step.o]
     /\ SubmitOf(r, step)
     /\ UNCHANGED <<db, log, worker, tasks, active_tasks, submitting, shut>>

\* The facade resumes with its task's result.  The event task created
\* before the facade suspended has started by then.
TaskDone(r) ==
  LET o == orch[r]
      f == future[o.awaiting]
      stored == [o EXCEPT !.task_results = @ \cup {workflow_sequence[o.seq_state]},
                          !.awaiting = NoSub]
      o2 == IF TaskFailed(f)
              THEN [emit_event(o, "fail", ResultError(f))
                      EXCEPT !.running = FALSE, !.pc = "await_loop", !.ret = "False",
                             !.awaiting = NoSub]
            ELSE IF o.kind = "auto"
              THEN [advance_to_next_state(stored) EXCEPT !.pc = "sleep"]
            ELSE [advance_to_next_state(stored) EXCEPT !.running = FALSE, !.pc = "await_loop",
                                                        !.ret = "True"]
  IN /\ o.pc = "await_result"
     /\ o.loop # "created"
     /\ f.st = "done"
     /\ LoopThreadFree
     /\ orch' = [orch EXCEPT ![r] = o2]
     /\ hist' = [HistEmit(hist, r, Appended(o.event_queue, o2.event_queue))
                   EXCEPT !.outcomes[r] = Append(@, f.success)]
     /\ UNCHANGED <<db, log, poolVars>>

\* The settle delay asyncio.sleep(2) is over on an asyncio thread that was
\* not held up for the length of the delay: process_events, wakened by the
\* emit, has taken the event and applied it by then.
Settled(o) == o.event_queue = <<>> /\ o.cur = NoTransition /\ o.loop # "created"

SleepDone(r) ==
  LET o == orch[r]
      step == Iterate([o EXCEPT !.seq_state = @ + 1], r)
  IN /\ o.pc = "sleep"
     /\ Settled(o)
     /\ LoopThreadFree
     /\ orch' = [orch EXCEPT ![r] = step.o]
     /\ SubmitOf(r, step)
     /\ UNCHANGED <<db, log, worker, tasks, active_tasks, submitting, shut>>

\* The settle delay is over before process_events has taken the event.  The
\* emit fell together with the 1 s timeout of wait_for(queue.get()): the loop
\* first cancels the timed-out get and starts a new one, which takes more
\* rounds of the asyncio scheduler than the sleep's timer needs once it is
\* due, and other coroutines' synchronous work held the thread for the 2 s.
SleepDoneEarly(r) ==
  LET o == orch[r]
      step == Iterate([o EXCEPT !.seq_state = @ + 1], r)
  IN /\ o.pc = "sleep"
     /\ o.loop = "waiting"
     /\ o.event_queue # <<>>
     /\ LoopThreadFree
     /\ orch' = [orch EXCEPT ![r] = step.o]
     /\ SubmitOf(r, step)
     /\ UNCHANGED <<db, log, worker, tasks, active_tasks, submitting, shut>>

\* 'await event_task' returns once process_events has ended.
LoopJoin(r) ==
  /\ orch[r].pc = "await_loop"
  /\ orch[r].loop = "exited"
  /\ LoopThreadFree
  /\ orch' = [orch EXCEPT ![r].pc = "done"]
  /\ UNCHANGED <<db, log, poolVars, hist>>

(* ------------------------------ API layer ------------------------------ *)
\* Each call takes the lowest unused facade slot.
FreeSlot(r) == orch[r].kind = "free" /\ \A q \in Runs : q < r => orch[q].kind # "free"

Scheduled(w, k) == [FreeRun EXCEPT !.kind = k, !.workflow_id = w, !.pc = "scheduled"]

\* POST /execution/workflows/{id}/start
StartWorkflow(w, r) ==
  /\ FreeSlot(r)
  /\ LoopThreadFree
  /\ db[w].status \in {"INIT", "FAILED", "CANCELLED"}
  /\ db' = IF db[w].status \in {"FAILED", "CANCELLED"}
             THEN [db EXCEPT ![w].status = "INIT", ![w].current_state = "INIT"]
             ELSE db
  /\ orch' = [orch EXCEPT ![r] = Scheduled(w, "auto")]
  /\ hist' = [hist EXCEPT !.ops[w] = @ + 1]
  /\ UNCHANGED <<log, poolVars>>

\* POST /workflow/{id}/next
NextStep(w, r) ==
  /\ FreeSlot(r)
  /\ LoopThreadFree
  /\ db[w].status \notin {"COMPLETE", "CANCELLED", "FAILED"}
  /\ orch' = [orch EXCEPT ![r] = Scheduled(w, "next")]
  /\ hist' = [hist EXCEPT !.ops[w] = @ + 1]
  /\ UNCHANGED <<db, log, poolVars>>

\* POST /execution/workflows/{id}/cancel, up to its wait_for.
CancelWorkflow(w, r) ==
  /\ FreeSlot(r)
  /\ LoopThreadFree
  /\ db[w].status \in {"INIT", "PREPARE", "EXECUTE", "VALIDATE"}
  /\ orch' = [orch EXCEPT ![r] = [emit_event(Constructed(w, "cancel"), "cancel", Absent)
                                    EXCEPT !.running = TRUE, !.loop = "created",
                                           !.pc = "cancel_wait"]]
  /\ hist' = [HistEmit(hist, r, <<Event("cancel", Absent)>>) EXCEPT !.ops[w] = @ + 1]
  /\ UNCHANGED <<db, log, poolVars>>

\* The 2.0 s deadline of cancel's wait_for expires: process_events, which
\* nothing stops, is cancelled and the endpoint ends with TimeoutError.  The
\* loop wakened by the cancel event is ahead of the timer, so it is idle.
CancelDeadline(r) ==
  /\ orch[r].pc = "cancel_wait"
  /\ orch[r].loop = "waiting"
  /\ orch[r].event_queue = <<>>
  /\ LoopThreadFree
  /\ orch' = [orch EXCEPT ![r].pc = "done", ![r].loop = "exited", ![r].ret = "TimeoutError"]
  /\ UNCHANGED <<db, log, poolVars, hist>>

\* POST /workflow/{id}/retry: a facade is constructed, its retry trigger is
\* called, and a background execute_automatic is scheduled.
RetryWorkflow(w, r) ==
  LET res == TriggerCall(Constructed(w, "retry"), db[w], Now(w), "retry", Absent)
  IN /\ FreeSlot(r)
     /\ LoopThreadFree
     /\ db[w].status = "FAILED"
     /\ db' = [db EXCEPT ![w] = res.rec]
     /\ orch' = [orch EXCEPT ![r] = Scheduled(w, "auto")]
     /\ hist' = [hist EXCEPT !.ops[w] = @ + 1]
     /\ UNCHANGED <<log, poolVars>>

(* --------------------------- initial values ---------------------------- *)
InitHist ==
  [fired |-> NoFire,
   pending |-> [r \in Runs |-> <<>>],
   fifo |-> [r \in Runs |-> TRUE],
   inflight |-> [r \in Runs |-> 0],
   submitted |-> [r \in Runs |-> <<>>],
   outcomes |-> [r \in Runs |-> <<>>],
   raised |-> [r \in Runs |-> FALSE],
   status |-> NoStatus,
   emitted |-> 0,
   ops |-> [w \in WorkflowIds |-> 0]]

\* A Future: its state and result, and for the properties how often a worker
\* started it (runs), how often a result was set (sets) and what its task
\* logic did (raised).
NewFuture == [st |-> "none", success |-> FALSE, error |-> Absent, runs |-> 0, sets |-> 0,
              raised |-> Absent]

NewTask == [status |-> "pending", error_message |-> NoneVal]

InitPool ==
  /\ work_queue = <<>>
  /\ worker = [k \in Workers |-> NoSub]
  /\ future = [s \in SubIds |-> NewFuture]
  /\ tasks = [t \in TaskIds |-> NewTask]
  /\ active_tasks = {}
  /\ submitting = {}
  /\ shut = [flag |-> FALSE, joining |-> FALSE, waits |-> <<>>]

(* ---------------------- the engine on its own -------------------------- *)
\* One facade constructed on a workflow row of any status, its trigger
\* methods called directly in any order with any kwargs.
InitEngine ==
  /\ \E s \in StateSet : db = [w \in WorkflowIds |-> NewWorkflow(s)]
  /\ log = [w \in WorkflowIds |-> <<>>]
  /\ orch = [r \in Runs |-> IF r = 1
                              THEN [Constructed(1, "direct") EXCEPT !.state = db[1].status]
                              ELSE FreeRun]
  /\ hist = InitHist
  /\ InitPool

NextEngine ==
  \/ \E t \in Triggers, err \in Kwargs : DirectFire(1, t, err)
  \/ GetStatus(1)
  \/ LogRecord(1)
  \/ AfterHook(1)

SpecEngine == InitEngine /\ [][NextEngine]_vars

(* ------------------------ the pool on its own -------------------------- *)
\* Clients submit workflow tasks and Task rows to one WorkerManager.
InitPoolOnly ==
  /\ db = [w \in WorkflowIds |-> NewWorkflow("INIT")]
  /\ log = [w \in WorkflowIds |-> <<>>]
  /\ orch = [r \in Runs |-> FreeRun]
  /\ hist = InitHist
  /\ InitPool

NextPool ==
  \/ \E tt \in WorkflowTaskTypes : SubmitWorkflowTask(1, tt)
  \/ \E t \in TaskIds : SubmitTask(t)
  \/ \E t \in TaskIds : RegisterActive(t)
  \/ \E k \in Workers : WorkerTake(k)
  \/ \E k \in Workers, e \in LogicOutcomes : WorkerFinish(k, e)

SpecPool == InitPoolOnly /\ [][NextPool]_vars

\* Pool threads are operating-system threads: one that can take or finish a
\* work item does so; the task logic of every type returns or raises.
SpecPoolFair ==
  /\ SpecPool
  /\ WF_vars(\E k \in Workers : WorkerTake(k))
  /\ \A k \in Workers : WF_vars(\E e \in LogicOutcomes : WorkerFinish(k, e))

(* ----------------------- the pool being shut down ---------------------- *)
\* The pool's clients submit while one of them calls shutdown, up to
\* MaxShutdowns times, with either value of wait.
NextShutdown ==
  \/ NextPool
  \/ \E wait \in BOOLEAN : ShutdownCall(wait)
  \/ ShutdownReturn

SpecShutdown == InitPoolOnly /\ [][NextShutdown]_vars

(* --------------------- one event loop on its own ----------------------- *)
\* One facade on an INIT workflow whose process_events runs while a client
\* emits events of any name, then stops it.
EventNames == Triggers \cup DataAttributes \cup {"bogus"}

EmitEvent(r, name, err) ==
  /\ orch[r].kind = "events"
  /\ LoopThreadFree
  /\ hist.emitted < MaxEvents
  /\ name = "fail" \/ err = Absent
  /\ orch' = [orch EXCEPT ![r] = emit_event(@, name, err)]
  /\ hist' = [HistEmit(hist, r, <<Event(name, err)>>) EXCEPT !.emitted = @ + 1]
  /\ UNCHANGED <<db, log, poolVars>>

\* The client clears the run flag, as execute_automatic does at its end.
StopLoop(r) ==
  /\ orch[r].kind = "events"
  /\ orch[r].running
  /\ LoopThreadFree
  /\ orch' = [orch EXCEPT ![r].running = FALSE]
  /\ UNCHANGED <<db, log, poolVars, hist>>

InitLoop ==
  /\ db = [w \in WorkflowIds |-> NewWorkflow("INIT")]
  /\ log = [w \in WorkflowIds |-> <<>>]
  /\ orch = [r \in Runs |-> IF r = 1 THEN [Constructed(1, "events") EXCEPT !.state = "INIT",
                                                                         !.loop = "created"]
                                     ELSE FreeRun]
  /\ hist = InitHist
  /\ InitPool

NextLoop ==
  \/ \E name \in EventNames, err \in Kwargs : EmitEvent(1, name, err)
  \/ StopLoop(1)
  \/ LoopStart(1)
  \/ LoopEvent(1)
  \/ LogRecord(1)
  \/ AfterHook(1)
  \/ LoopTimeout(1)

SpecLoop == InitLoop /\ [][NextLoop]_vars

(* ------------------------- one run on its own -------------------------- *)
\* One background run, execute_automatic or execute_next_step, scheduled on
\* a workflow row of any status, with nothing else acting on the workflow.
InitRun ==
  /\ \E s \in StateSet : db = [w \in WorkflowIds |-> NewWorkflow(s)]
  /\ log = [w \in WorkflowIds |-> <<>>]
  /\ \E k \in {"auto", "next"} :
       orch = [r \in Runs |-> IF r = 1 THEN Scheduled(1, k) ELSE FreeRun]
  /\ hist = InitHist
  /\ InitPool

NextRun ==
  \/ BackgroundStart(1)
  \/ TaskDone(1)
  \/ SleepDone(1)
  \/ LoopJoin(1)
  \/ LoopStart(1)
  \/ LoopEvent(1)
  \/ LogRecord(1)
  \/ AfterHook(1)
  \/ LoopTimeout(1)
  \/ \E k \in Workers : WorkerTake(k)
  \/ \E k \in Workers, e \in LogicOutcomes : WorkerFinish(k, e)

SpecRun == InitRun /\ [][NextRun]_vars

\* The asyncio scheduler resumes every coroutine of the run that is ready and
\* the pool threads run: no step that stays possible is put off for ever.
SpecRunFair ==
  /\ SpecRun
  /\ WF_vars(BackgroundStart(1))
  /\ WF_vars(TaskDone(1))
  /\ WF_vars(SleepDone(1))
  /\ WF_vars(LoopJoin(1))
  /\ WF_vars(LoopStart(1))
  /\ WF_vars(LoopEvent(1))
  /\ WF_vars(LogRecord(1))
  /\ WF_vars(AfterHook(1))
  /\ WF_vars(LoopTimeout(1))
  /\ WF_vars(\E k \in Workers : WorkerTake(k))
  /\ \A k \in Workers : WF_vars(\E e \in LogicOutcomes : WorkerFinish(k, e))

(* ------------------ one run on a held-up asyncio thread ---------------- *)
\* The run of SpecRun on an asyncio thread that other coroutines may hold for
\* longer than the settle delay.
NextStall ==
  \/ NextRun
  \/ SleepDoneEarly(1)

SpecStall == InitRun /\ [][NextStall]_vars

(* ------------------- runs on distinct workflows ------------------------ *)
\* execute_workflow_background is scheduled once for each of MaxRuns
\* workflows, run r on workflow r, all in INIT, on one WorkerManager whose
\* executor has a single thread: max_workers = 1, fewer than the runs.
SmallPool == {1}

InitMany ==
  /\ db = [w \in Runs |-> NewWorkflow("INIT")]
  /\ log = [w \in Runs |-> <<>>]
  /\ orch = [r \in Runs |-> Scheduled(r, "auto")]
  /\ hist = InitHist
  /\ InitPool

NextMany ==
  \/ \E r \in Runs : BackgroundStart(r)
  \/ \E r \in Runs : TaskDone(r)
  \/ \E r \in Runs : SleepDone(r)
  \/ \E r \in Runs : LoopJoin(r)
  \/ \E r \in Runs : LoopStart(r)
  \/ \E r \in Runs : LoopEvent(r)
  \/ \E r \in Runs : LogRecord(r)
  \/ \E r \in Runs : AfterHook(r)
  \/ \E r \in Runs : LoopTimeout(r)
  \/ \E k \in SmallPool : WorkerTake(k)
  \/ \E k \in SmallPool, e \in LogicOutcomes : WorkerFinish(k, e)

SpecMany == InitMany /\ [][NextMany]_vars

\* The asyncio scheduler runs every ready coroutine and the executor's
\* thread runs: no step that stays possible is put off for ever.
SpecManyFair ==
  /\ SpecMany
  /\ \A r \in Runs :
       /\ WF_vars(BackgroundStart(r))
       /\ WF_vars(TaskDone(r))
       /\ WF_vars(SleepDone(r))
       /\ WF_vars(LoopJoin(r))
       /\ WF_vars(LoopStart(r))
       /\ WF_vars(LoopEvent(r))
       /\ WF_vars(LogRecord(r))
       /\ WF_vars(AfterHook(r))
       /\ WF_vars(LoopTimeout(r))
  /\ \A k \in SmallPool :
       /\ WF_vars(WorkerTake(k))
       /\ WF_vars(\E e \in LogicOutcomes : WorkerFinish(k, e))

(* --------------------------- the whole system -------------------------- *)
Init ==
  /\ db = [w \in WorkflowIds |-> NewWorkflow("INIT")]
  /\ log = [w \in WorkflowIds |-> <<>>]
  /\ orch = [r \in Runs |-> FreeRun]
  /\ hist = InitHist
  /\ InitPool

Next ==
  \/ \E w \in WorkflowIds, r \in Runs : StartWorkflow(w, r)
  \/ \E w \in WorkflowIds, r \in Runs : NextStep(w, r)
  \/ \E w \in WorkflowIds, r \in Runs : CancelWorkflow(w, r)
  \/ \E w \in WorkflowIds, r \in Runs : RetryWorkflow(w, r)
  \/ \E r \in Runs : BackgroundStart(r)
  \/ \E r \in Runs : TaskDone(r)
  \/ \E r \in Runs : SleepDone(r)
  \/ \E r \in Runs : LoopJoin(r)
  \/ \E r \in Runs : CancelDeadline(r)
  \/ \E r \in Runs : LoopStart(r)
  \/ \E r \in Runs : LoopEvent(r)
  \/ \E r \in Runs : LogRecord(r)
  \/ \E r \in Runs : AfterHook(r)
  \/ \E r \in Runs : LoopTimeout(r)
  \/ \E k \in Workers : WorkerTake(k)
  \/ \E k \in Workers, e \in LogicOutcomes : WorkerFinish(k, e)

Spec == Init /\ [][Next]_vars

(* ============================== claims ================================= *)

\* C1: firing a trigger from a state outside its declared source set raises
\* the invalid-transition error and changes nothing: the engine state, the
\* persisted row and the transition log stay as they were and no after-hook
\* is left to run.
C1_IllegalTriggerChangesNothing ==
  [][\A r \in Runs, t \in Triggers, err \in Kwargs :
       (DirectFire(r, t, err) /\ orch[r].state \notin SourceOf(t))
         => /\ hist'.fired = [run |-> r, trigger |-> t, from |-> orch[r].state, raised |-> TRUE]
            /\ orch'[r] = orch[r]
            /\ db' = db
            /\ log' = log]_vars

\* An illegal trigger has been fired at the end of a full chain: prepare
\* raised in COMPLETE with the four records already logged.
C1_Witness ==
  /\ hist.fired.raised
  /\ hist.fired.trigger = "prepare"
  /\ hist.fired.from = "COMPLETE"
  /\ orch[1].state = "COMPLETE"
  /\ db[1].status = "COMPLETE"
  /\ Len(log[1]) = 4

\* C2: in every reachable state of the system driven by start, next, cancel
\* and retry calls, the persisted status equals the persisted current_state.
C2_StatusEqualsCurrentState ==
  \A w \in WorkflowIds : db[w].status = db[w].current_state

\* Two API calls have been made and a cancel has been recorded after a
\* forward transition.
C2_Witness ==
  /\ hist.ops[1] = 2
  /\ db[1].status = "CANCELLED"
  /\ db[1].current_state = "CANCELLED"
  /\ Len(log[1]) >= 2

\* A declared transition leads from x to y.
Declared(x, y) ==
  \E i \in 1..Len(transitions) : x \in transitions[i].source /\ y = transitions[i].dest

\* C3: every change of a workflow's persisted current_state goes from a state
\* X to a state Y for which the table declares a trigger with X among its
\* sources and Y as its destination.
C3_OnlyDeclaredChanges ==
  [][\A w \in WorkflowIds :
       db'[w].current_state # db[w].current_state
         => Declared(db[w].current_state, db'[w].current_state)]_vars

\* The persisted state went back from CANCELLED to INIT by a start call.
C3_Witness ==
  /\ db[1].current_state = "INIT"
  /\ Len(log[1]) = 1
  /\ log[1][1].to_state = "CANCELLED"
  /\ orch[2].kind = "auto"
  /\ orch[2].pc = "scheduled"

\* The only API call on the workflow of run r was the start that made r.
SoloAuto(r) == orch[r].kind = "auto" /\ hist.ops[orch[r].workflow_id] = 1

Rec(x, t, y) == [from_state |-> x, to_state |-> y, trigger |-> t]

FourRecords ==
  <<Rec("INIT", "prepare", "PREPARE"), Rec("PREPARE", "execute", "EXECUTE"),
    Rec("EXECUTE", "validate", "VALIDATE"), Rec("VALIDATE", "complete", "COMPLETE")>>

C5_ExecuteFailure ==
  \A r \in Runs :
    (/\ SoloAuto(r)
     /\ orch[r].pc = "done"
     /\ hist.outcomes[r] = <<TRUE, TRUE, FALSE>>)
      => /\ orch[r].ret = "False"
         /\ db[orch[r].workflow_id].status = "FAILED"
         /\ db[orch[r].workflow_id].error_message \notin {NoneVal, ""}
         /\ log[orch[r].workflow_id] =
              <<Rec("INIT", "prepare", "PREPARE"), Rec("PREPARE", "execute", "EXECUTE"),
                Rec("EXECUTE", "fail", "FAILED")>>
         /\ hist.submitted[r] = <<"initialize", "prepare", "execute">>

\* The run has returned False after its EXECUTE task raised an exception
\* without text, and the persisted error_message is the empty string.
C5_Witness ==
  /\ SoloAuto(1)
  /\ orch[1].pc = "done"
  /\ orch[1].ret = "False"
  /\ hist.outcomes[1] = <<TRUE, TRUE, FALSE>>
  /\ db[1].status = "FAILED"
  /\ db[1].error_message = ""

\* C6: the retry call on a workflow persisted as FAILED increments the
\* persisted retries by one, clears the persisted error_message and sets the
\* persisted current_state and status to INIT.
C6_RetryPersists ==
  [][\A w \in WorkflowIds, r \in Runs :
       RetryWorkflow(w, r)
         => /\ db'[w].retries = db[w].retries + 1
            /\ db'[w].error_message = NoneVal
            /\ db'[w].current_state = "INIT"
            /\ db'[w].status = "INIT"]_vars

\* The run scheduled by a retry call has loaded the row, still FAILED with
\* retries 0, and has ended with False.
C6_Witness ==
  /\ orch[2].kind = "auto"
  /\ orch[2].pc = "done"
  /\ orch[2].ret = "False"
  /\ orch[1].ret = "False"
  /\ db[1].status = "FAILED"
  /\ db[1].retries = 0
  /\ db[1].error_message # NoneVal

\* No API call was made after the one that took slot r.
LastCall(r) == \A q \in Runs : q > r => orch[q].kind = "free"

\* C7: when a cancel call on a workflow persisted as INIT, PREPARE, EXECUTE
\* or VALIDATE ends, no other call having been made since, the persisted
\* status is CANCELLED, whether or not a task of the workflow is in flight.
C7_CancelledAtDeadline ==
  [][\A r \in Runs :
       (CancelDeadline(r) /\ LastCall(r))
         => db'[orch[r].workflow_id].status = "CANCELLED"]_vars

\* A cancel call has ended while the log shows a transition of the running
\* workflow recorded after the cancel.
C7_Witness ==
  /\ orch[2].kind = "cancel"
  /\ orch[2].pc = "done"
  /\ Len(log[1]) = 2
  /\ log[1][1].to_state = "CANCELLED"
  /\ db[1].status = "PREPARE"

Executing == {sub \in SubIds : future[sub].st = "running"}

\* C8: with more submissions than workers, the number of submissions being
\* executed at one moment never exceeds the pool's capacity, and every
\* submission waiting in the pool is eventually completed.
C8_BoundedAndComplete ==
  /\ [](Cardinality(Executing) <= MaxWorkers)
  /\ \A sub \in SubIds : (future[sub].st = "pending") ~> (future[sub].st = "done")

\* Every worker is executing and a further submission waits.
C8_Witness ==
  /\ MaxSubmissions > MaxWorkers
  /\ Cardinality(Executing) = MaxWorkers
  /\ Len(work_queue) = MaxSubmissions - MaxWorkers

\* The outcome the handle of sub holds is the one its task logic produced.
OutcomeDelivered(sub) ==
  LET f == future[sub]
  IN /\ f.success = (f.raised = Absent)
     /\ f.error = IF sub.kind = "workflow" THEN f.raised ELSE Absent

\* C9: every accepted submission is executed exactly once by exactly one
\* worker and its handle gets exactly one outcome: success, or failure with
\* the error text when the task logic raised; no outcome is lost.
C9_ExactlyOnce ==
  /\ [](\A sub \in SubIds :
          /\ future[sub].runs <= 1
          /\ future[sub].sets <= 1
          /\ Cardinality({k \in Workers : worker[k] = sub}) <= 1
          /\ future[sub].st = "running" => Cardinality({k \in Workers : worker[k] = sub}) = 1
          /\ future[sub].st = "done"
               => future[sub].runs = 1 /\ future[sub].sets = 1 /\ OutcomeDelivered(sub))
  /\ \A sub \in SubIds : [](future[sub].st # "none" => <>(future[sub].st = "done"))

\* A workflow task whose logic raised has delivered its failure with the
\* error text, after one execution.
C9_Witness ==
  LET f == future[WorkflowSub(1, "execute")]
  IN /\ f.st = "done"
     /\ f.runs = 1
     /\ f.sets = 1
     /\ ~f.success
     /\ f.error = "boom"

\* C10: within one run the events are applied one at a time in the order of
\* their enqueueing: each event taken is the oldest one waiting, and while
\* the loop waits for an event no transition is left unrecorded.
C10_OneAtATimeInOrder ==
  \A r \in Runs :
    /\ hist.fifo[r]
    /\ hist.inflight[r] <= 1
    /\ hist.inflight[r] = IF orch[r].cur = NoTransition THEN 0 ELSE 1
    /\ orch[r].loop \in {"waiting", "exited"} => orch[r].cur = NoTransition
    /\ orch[r].event_queue = hist.pending[r]

\* Three events were emitted: the first is recorded, the second is between
\* its state change and its record while the third, enqueued before the
\* second was taken, waits.
C10_Witness ==
  /\ hist.emitted = 3
  /\ log[1] = <<Rec("INIT", "prepare", "PREPARE")>>
  /\ orch[1].loop = "applying"
  /\ orch[1].cur.trigger = "execute"
  /\ orch[1].event_queue = <<Event("validate", Absent)>>

\* The trigger call of the event the loop of run r takes next raises.
NextEventRaises(r) ==
  LET q == orch[r].event_queue
      ev == q[QueueGet(q)]
  IN ev.name \in Triggers /\ ~MayTrigger(orch[r].state, ev.name)

Advancing ==
  [INIT |-> Rec("INIT", "prepare", "PREPARE"), PREPARE |-> Rec("PREPARE", "execute", "EXECUTE"),
   EXECUTE |-> Rec("EXECUTE", "validate", "VALIDATE"),
   VALIDATE |-> Rec("VALIDATE", "complete", "COMPLETE")]

\* The state in which run r found its engine when it began.
BeganIn(r) == workflow_sequence[orch[r].seq_state]

C13_NextStepTerminalNoOp ==
  [][\A r \in Runs :
       (/\ BackgroundStart(r)
        /\ orch[r].kind = "next"
        /\ db[orch[r].workflow_id].status \in {"COMPLETE", "FAILED", "CANCELLED"})
         => /\ db' = db
            /\ log' = log
            /\ work_queue' = work_queue
            /\ future' = future
            /\ hist'.submitted = hist.submitted
            /\ orch'[r].loop = "none"
            /\ orch'[r].event_queue = <<>>
            /\ orch'[r].state = db[orch[r].workflow_id].status
            /\ orch'[r].pc = "done"
            /\ orch'[r].ret = "False"]_vars

\* A step on a CANCELLED workflow has returned False.
C13_Witness ==
  /\ orch[1].kind = "next"
  /\ orch[1].pc = "done"
  /\ orch[1].ret = "False"
  /\ orch[1].state = "CANCELLED"
  /\ orch[1].loop = "none"
  /\ db[1].status = "CANCELLED"
  /\ hist.submitted[1] = <<>>

\* The task logic of a task submitted by run r raised.
SomeTaskFailed(r) ==
  \E tt \in WorkflowTaskTypes :
    future[WorkflowSub(r, tt)].st = "done" /\ future[WorkflowSub(r, tt)].raised # Absent

\* Run r is the only call made on its workflow so far.
OnlyCall(r) == hist.ops[orch[r].workflow_id] = 1

C16_FinalStatusIsFinal ==
  [][\A w \in WorkflowIds :
       (/\ db[w].status \in {"COMPLETE", "CANCELLED"}
        /\ \E r \in Runs : orch[r].kind \in {"auto", "next"} /\ (LogRecord(r) \/ AfterHook(r)))
         => /\ db'[w].status = db[w].status
            /\ log'[w] = log[w]]_vars

\* A run cancelled while its first task was on a worker has since recorded
\* INIT -> PREPARE behind the cancel record and set the workflow to PREPARE.
C16_Witness ==
  /\ orch[1].kind = "auto"
  /\ orch[2].kind = "cancel"
  /\ orch[2].pc = "done"
  /\ log[1] = <<Rec("INIT", "cancel", "CANCELLED"), Rec("INIT", "prepare", "PREPARE")>>
  /\ db[1].status = "PREPARE"

\* C17: the record of a transition and the update of the workflow row
\* become visible together: whenever the log of a workflow is not empty,
\* the persisted current_state is the to_state of the newest record.
C17_RecordAndRowTogether ==
  \A w \in WorkflowIds :
    log[w] # <<>> => db[w].current_state = log[w][Len(log[w])].to_state

\* Between the two commits of _log_transition: the record INIT -> PREPARE is
\* in the log and the row still says INIT.
C17_Witness ==
  /\ orch[1].logged
  /\ orch[1].cur = [source |-> "INIT", dest |-> "PREPARE", trigger |-> "prepare"]
  /\ log[1] = <<Rec("INIT", "prepare", "PREPARE")>>
  /\ db[1].current_state = "INIT"
  /\ db[1].status = "INIT"

\* C18: once a legal trigger call, of any of the seven triggers, has
\* returned, the newest record of the log carries its source state, its
\* destination and its trigger name, and the persisted status and
\* current_state are the destination; no step appends more than one record.
C18_EveryTransitionRecorded ==
  /\ [](\A r \in Runs :
          (/\ hist.fired.run = r
           /\ ~hist.fired.raised
           /\ orch[r].cur = NoTransition)
            => LET w == orch[r].workflow_id
                   t == hist.fired.trigger
               IN /\ log[w] # <<>>
                  /\ log[w][Len(log[w])] = Rec(hist.fired.from, t, DestOf(t))
                  /\ db[w].status = DestOf(t)
                  /\ db[w].current_state = DestOf(t))
  /\ [][\A w \in WorkflowIds : Len(log'[w]) <= Len(log[w]) + 1]_vars

\* retry has been applied to an engine that failed in INIT: the engine is in
\* INIT, the newest record is still the fail record and the row still FAILED.
C18_Witness ==
  /\ hist.fired = [run |-> 1, trigger |-> "retry", from |-> "FAILED", raised |-> FALSE]
  /\ orch[1].state = "INIT"
  /\ orch[1].cur = NoTransition
  /\ log[1] = <<Rec("INIT", "fail", "FAILED")>>
  /\ db[1].status = "FAILED"
  /\ db[1].current_state = "FAILED"

\* C19: in each of the terminal states COMPLETE, FAILED and CANCELLED the
\* next trigger, as get_next_trigger computes it and as get_status reports
\* it, is none.
C19_TerminalHasNoNextTrigger ==
  /\ \A st \in {"COMPLETE", "FAILED", "CANCELLED"} : get_next_trigger(st) = NoneVal
  /\ (hist.status # NoStatus /\ hist.status.state \in {"COMPLETE", "FAILED", "CANCELLED"})
       => hist.status.next_trigger = NoneVal

\* get_status on a FAILED engine has reported retry as its next trigger.
C19_Witness ==
  hist.status = [state |-> "FAILED", status |-> "FAILED", next_trigger |-> "retry"]

\* C20: in each non-terminal state the next trigger is the advancing one,
\* prepare in INIT, execute in PREPARE, validate in EXECUTE and complete in
\* VALIDATE, and in no state is it fail or cancel.
C20_NextTriggerAdvances ==
  /\ \A st \in DOMAIN Advancing : get_next_trigger(st) = Advancing[st].trigger
  /\ \A st \in StateSet : get_next_trigger(st) \notin {"fail", "cancel"}
  /\ hist.status # NoStatus
       => /\ hist.status.next_trigger \notin {"fail", "cancel"}
          /\ hist.status.state \in DOMAIN Advancing
               => hist.status.next_trigger = Advancing[hist.status.state].trigger

\* get_status on an engine that advanced to EXECUTE has reported validate.
C20_Witness ==
  /\ hist.status = [state |-> "EXECUTE", status |-> "EXECUTE", next_trigger |-> "validate"]
  /\ log[1] # <<>>
  /\ log[1][Len(log[1])] = Rec("PREPARE", "execute", "EXECUTE")

\* C21: a workflow whose persisted status is FAILED has a non-empty
\* error_message: a fail transition never records a failure without a text.
C21_FailedHasErrorText ==
  \A w \in WorkflowIds :
    db[w].status = "FAILED" => db[w].error_message \notin {NoneVal, ""}

\* The first task of a run raised an exception without text: the fail
\* transition is recorded and the persisted error_message is the empty string.
C21_Witness ==
  /\ db[1].status = "FAILED"
  /\ db[1].error_message = ""
  /\ log[1] = <<Rec("INIT", "fail", "FAILED")>>
  /\ future[WorkflowSub(1, "initialize")].raised = ""

\* The event the loop of run r takes next is named after no trigger of the
\* transition table.
NextEventUnknown(r) ==
  orch[r].event_queue[QueueGet(orch[r].event_queue)].name \notin Triggers

\* C22: an event whose name is no trigger of the table is discarded: the
\* step that takes it leaves the engine state, the persisted row and the log
\* as they were, removes that event from the queue and adds none, and the
\* loop goes on as its run flag says.
C22_UnknownEventDiscarded ==
  [][\A r \in Runs :
       (LoopEvent(r) /\ NextEventUnknown(r))
         => /\ orch'[r].state = orch[r].state
            /\ orch'[r].cur = NoTransition
            /\ db' = db
            /\ log' = log
            /\ orch'[r].event_queue = RemoveAt(orch[r].event_queue, QueueGet(orch[r].event_queue))
            /\ orch'[r].loop = IF orch[r].running THEN "waiting" ELSE "exited"]_vars

\* The event named workflow_id, emitted on an INIT engine, was taken: the
\* call raised, a fail event took its place and has failed the workflow.
C22_Witness ==
  /\ hist.emitted = 1
  /\ hist.raised[1]
  /\ orch[1].state = "FAILED"
  /\ db[1].status = "FAILED"
  /\ db[1].error_message = "'int' object is not callable"
  /\ log[1] = <<Rec("INIT", "fail", "FAILED")>>

\* C23: stopping is cooperative and does not drain.  A loop whose run flag
\* is cleared ends at its next test of the flag, after the event it was
\* handling or the time-out of its wait, whatever still waits in its queue;
\* once it has ended it applies nothing: the engine state, the row and the
\* log stay, and the events in its queue stay there.
C23_StopDoesNotDrain ==
  /\ [][\A r \in Runs :
          (/\ ~orch[r].running
           /\ orch[r].loop \in {"waiting", "applying"}
           /\ LoopEvent(r) \/ AfterHook(r) \/ LoopTimeout(r)
           /\ orch'[r].cur = NoTransition)
            => orch'[r].loop = "exited"]_vars
  /\ [][\A r \in Runs :
          orch[r].loop = "exited"
            => /\ orch'[r].loop = "exited"
               /\ orch'[r].state = orch[r].state
               /\ db' = db
               /\ log' = log
               /\ Len(orch'[r].event_queue) >= Len(orch[r].event_queue)
               /\ SubSeq(orch'[r].event_queue, 1, Len(orch[r].event_queue))
                    = orch[r].event_queue]_vars

\* Three events were emitted and the loop was stopped: it applied prepare
\* and ended, with execute and validate still in its queue.
C23_Witness ==
  /\ hist.emitted = 3
  /\ ~orch[1].running
  /\ orch[1].loop = "exited"
  /\ orch[1].state = "PREPARE"
  /\ log[1] = <<Rec("INIT", "prepare", "PREPARE")>>
  /\ orch[1].event_queue = <<Event("execute", Absent), Event("validate", Absent)>>

\* Run r waits for the result of a task the pool has not finished.
Blocked(r) == orch[r].pc = "await_result" /\ future[orch[r].awaiting].st # "done"

C25_HandleAgreesWithRow ==
  \A t \in TaskIds :
    LET f == future[TaskSub(t)]
    IN f.st = "done"
         => /\ f.success <=> tasks[t].status = "completed"
            /\ f.raised # Absent
                 => /\ ~f.success
                    /\ tasks[t].status = "failed"
                    /\ tasks[t].error_message = f.raised
            /\ f.raised = Absent => f.success /\ tasks[t].error_message = NoneVal

\* Task 1 completed and its handle gave True; the logic of task 2 raised
\* "boom", its handle gave False and its row is FAILED with that text.
C25_Witness ==
  /\ future[TaskSub(1)].st = "done"
  /\ future[TaskSub(1)].success
  /\ tasks[1].status = "completed"
  /\ future[TaskSub(2)].st = "done"
  /\ ~future[TaskSub(2)].success
  /\ tasks[2] = [status |-> "failed", error_message |-> "boom"]

RunningStates == {"PREPARE", "EXECUTE", "VALIDATE", "COMPLETE"}

\* C26: a workflow persisted as PREPARE, EXECUTE, VALIDATE or COMPLETE has
\* its started_at set; the event that takes an engine out of INIT into
\* PREPARE sets it when it was unset, and an event applied by an engine that
\* is already in PREPARE, EXECUTE or VALIDATE leaves it as it is.
C26_StartedAtSetOnceKept ==
  /\ [](\A w \in WorkflowIds : db[w].status \in RunningStates => db[w].started_at # 0)
  /\ [][\A r \in Runs :
          LoopEvent(r) =>
            LET w == orch[r].workflow_id
            IN /\ (orch[r].state \in {"PREPARE", "EXECUTE", "VALIDATE"})
                    => db'[w].started_at = db[w].started_at
               /\ (orch[r].state = "INIT" /\ orch'[r].state = "PREPARE")
                    => db'[w].started_at # 0]_vars

\* A run is in EXECUTE after two transitions and started_at still carries
\* the stamp of the first.
C26_Witness ==
  /\ orch[1].kind = "auto"
  /\ orch[1].state = "EXECUTE"
  /\ db[1].status = "EXECUTE"
  /\ log[1] = <<Rec("INIT", "prepare", "PREPARE"), Rec("PREPARE", "execute", "EXECUTE")>>
  /\ db[1].started_at = 1

\* C27: no step of a start, next, cancel or retry call, of a run or of an
\* event loop decreases the persisted retries of a workflow, and a step that
\* changes it is a retry call.
C27_RetriesNeverDecrease ==
  [][\A w \in WorkflowIds :
       /\ db'[w].retries >= db[w].retries
       /\ db'[w].retries # db[w].retries => \E r \in Runs : RetryWorkflow(w, r)]_vars

\* A workflow failed, was retried, and the run the retry call scheduled has
\* ended; a fail record is in the log and retries has not gone down.
C27_Witness ==
  /\ hist.ops[1] = 2
  /\ orch[1].kind = "auto"
  /\ orch[2].kind = "auto"
  /\ orch[2].pc = "done"
  /\ log[1] = <<Rec("INIT", "fail", "FAILED")>>
  /\ db[1].status = "FAILED"
  /\ db[1].retries = 0

C29_ShutdownIdempotent ==
  /\ [][\A wait \in BOOLEAN :
          (ShutdownCall(wait) /\ shut.flag)
            => /\ shut'.flag
               /\ work_queue' = work_queue
               /\ worker' = worker
               /\ future' = future
               /\ tasks' = tasks
               /\ active_tasks' = active_tasks]_vars
  /\ [][ShutdownReturn => \A sub \in SubIds : future'[sub].st \in {"none", "done"}]_vars
  /\ [](\A w1 \in BOOLEAN :
          (shut.waits = <<w1>> /\ ~shut.joining) => \A w2 \in BOOLEAN : ENABLED ShutdownCall(w2))

\* shutdown(wait=False) was called with two submissions outstanding, then
\* shutdown(wait=True), which has returned: both submissions have their
\* outcome.
C29_Witness ==
  /\ shut = [flag |-> TRUE, joining |-> FALSE, waits |-> <<FALSE, TRUE>>]
  /\ future[TaskSub(1)].st = "done"
  /\ future[WorkflowSub(1, "initialize")].st = "done"
  /\ Accepted = 2

\* C30: in execute_automatic, whenever the task for state S of the sequence
\* is submitted to the pool, the engine's current state is S: the trigger
\* that advances into S has been applied before the submission, however the
\* facade and its event loop interleave.
C30_TaskSubmittedInItsState ==
  [][\A r \in Runs :
       (orch[r].kind = "auto" /\ Len(hist'.submitted[r]) > Len(hist.submitted[r]))
         => /\ orch'[r].state = workflow_sequence[orch'[r].seq_state]
            /\ orch'[r].awaiting.task_type = TaskTypeOf(orch'[r].state)]_vars

\* The prepare task of an automatic run is in the pool while the engine is
\* still in INIT and the prepare event waits in the queue.
C30_Witness ==
  /\ orch[1].kind = "auto"
  /\ orch[1].pc = "await_result"
  /\ orch[1].awaiting.task_type = "prepare"
  /\ orch[1].state = "INIT"
  /\ orch[1].event_queue # <<>>
  /\ orch[1].event_queue[1].name = "prepare"

\* The loop of run r is about to take an event whose trigger is illegal in
\* the terminal state its engine is in.
IllegalInTerminal(r) ==
  /\ orch[r].loop = "waiting"
  /\ orch[r].event_queue # <<>>
  /\ orch[r].state \in TerminalStates
  /\ NextEventRaises(r)

\* C31: the event loop does not re-enqueue fail events without bound: when a
\* fail event, or any event whose trigger is illegal, is dequeued with the
\* engine in COMPLETE, FAILED or CANCELLED, the queue becomes empty in the
\* end and the state stays as it is, also when execute_automatic is started
\* on an instance already FAILED or CANCELLED.
C31_FailEventsDieOut ==
  /\ \A r \in Runs : IllegalInTerminal(r) ~> (orch[r].event_queue = <<>>)
  /\ [][\A r \in Runs :
          (LoopEvent(r) /\ IllegalInTerminal(r)) => orch'[r].state = orch[r].state]_vars

\* execute_automatic was started on a FAILED instance and has returned; its
\* loop has taken the fail event once and holds the fail event made from
\* the error of that call.
C31_Witness ==
  /\ orch[1].kind = "auto"
  /\ orch[1].pc = "done"
  /\ orch[1].state = "FAILED"
  /\ orch[1].loop = "waiting"
  /\ hist.raised[1]
  /\ orch[1].event_queue = <<Event("fail", "MachineError")>>

\* C32: the transition log of every instance is a connected chain: its first
\* record starts from INIT and each later record starts from the state the
\* record before it ended in, after any sequence and interleaving of start,
\* next, cancel and retry calls on the instance.
C32_LogIsChain ==
  \A w \in WorkflowIds :
    /\ log[w] # <<>> => log[w][1].from_state = "INIT"
    /\ \A i \in 1..(Len(log[w]) - 1) : log[w][i + 1].from_state = log[w][i].to_state

\* A start call on the FAILED instance has put the row back to INIT without
\* a record: the log goes from the record into FAILED to one out of INIT.
C32_Witness ==
  /\ Len(log[1]) = 2
  /\ log[1][1] = Rec("INIT", "fail", "FAILED")
  /\ log[1][2] = Rec("INIT", "prepare", "PREPARE")
  /\ orch[1].pc = "done"
  /\ orch[1].ret = "False"
  /\ orch[2].kind = "auto"

\* C33: whenever no transition of a run is in progress, the state of the
\* run's engine is the persisted current_state of its instance, after each
\* of the seven triggers, retry included.
C33_EngineAgreesWithRow ==
  \A r \in Runs :
    (orch[r].kind = "direct" /\ orch[r].cur = NoTransition)
      => orch[r].state = db[orch[r].workflow_id].current_state

\* The retry trigger has returned on the only facade of a FAILED instance:
\* the engine is in INIT and the row was not written.
C33_Witness ==
  /\ hist.fired = [run |-> 1, trigger |-> "retry", from |-> "FAILED", raised |-> FALSE]
  /\ orch[1].cur = NoTransition
  /\ orch[1].state = "INIT"
  /\ db[1].current_state = "FAILED"
  /\ log[1] = <<>>

FourTasks == <<"initialize", "prepare", "execute", "validate">>

\* The futures of the workflow tasks of run r that have no outcome yet.
InFlight(r) ==
  {sub \in SubIds : sub.kind = "workflow" /\ sub.id = r /\ future[sub].st \in {"pending", "running"}}

\* C34: an execute_automatic run from INIT whose tasks all succeed submits
\* exactly the four tasks initialize, prepare, execute, validate in that
\* order, each one only after the result of the one before it was received,
\* so that at most one task of the instance is in flight, and it never
\* submits the complete task.
C34_FourTasksOneAtATime ==
  /\ [][\A r \in Runs :
          (BackgroundStart(r) /\ orch'[r].kind = "auto" /\ db[orch'[r].workflow_id].status = "INIT")
            => hist'.submitted[r] = <<"initialize">>]_vars
  /\ [][\A r \in Runs :
          (orch'[r].kind = "auto" /\ Len(hist'.submitted[r]) > Len(hist.submitted[r]))
            => /\ Len(hist.outcomes[r]) = Len(hist.submitted[r])
               /\ InFlight(r) = {}
               /\ Len(hist'.submitted[r]) = Len(hist.submitted[r]) + 1]_vars
  /\ [](\A r \in Runs :
          (orch[r].kind = "auto" /\ hist.submitted[r] # <<>> /\ hist.submitted[r][1] = "initialize")
            => /\ Len(hist.submitted[r]) <= Len(FourTasks)
               /\ hist.submitted[r] = SubSeq(FourTasks, 1, Len(hist.submitted[r]))
               /\ \A i \in 1..Len(hist.submitted[r]) : hist.submitted[r][i] # "complete"
               /\ Cardinality(InFlight(r)) <= 1
               /\ (orch[r].pc = "done" /\ \A i \in 1..Len(hist.outcomes[r]) : hist.outcomes[r][i])
                    => hist.submitted[r] = FourTasks)

\* The run from INIT has returned after four successful tasks, the last of
\* them validate.
C34_Witness ==
  /\ orch[1].kind = "auto"
  /\ orch[1].pc = "done"
  /\ hist.submitted[1] = FourTasks
  /\ hist.outcomes[1] = <<TRUE, TRUE, TRUE, TRUE>>
  /\ InFlight(1) = {}

\* Run r is an execute_automatic that found its instance in COMPLETE.
BeganComplete(r) ==
  /\ orch[r].kind = "auto"
  /\ orch[r].seq_state = Len(workflow_sequence)
  /\ hist.submitted[r] = <<>>

\* C35: execute_automatic started on an instance persisted as PREPARE,
\* EXECUTE or VALIDATE submits the tasks of that state and of the
\* non-terminal states after it only and, when all succeed, ends in COMPLETE
\* with exactly one record per remaining transition appended; started on an
\* instance already COMPLETE it submits no task, applies no transition and
\* returns True.
C35_ResumesFromPersistedState ==
  /\ [][\A r \in Runs :
          (/\ BackgroundStart(r)
           /\ orch'[r].kind = "auto"
           /\ db[orch'[r].workflow_id].status \in {"PREPARE", "EXECUTE", "VALIDATE"})
            => hist'.submitted[r] = <<STATE_TASKS[db[orch'[r].workflow_id].status]>>]_vars
  /\ [](\A r \in Runs :
          (orch[r].kind = "auto" /\ hist.submitted[r] # <<>>)
            => \E i \in 1..Len(FourTasks) :
                 /\ hist.submitted[r][1] = FourTasks[i]
                 /\ Len(hist.submitted[r]) <= Len(FourTasks) - i + 1
                 /\ hist.submitted[r] = SubSeq(FourTasks, i, i + Len(hist.submitted[r]) - 1)
                 /\ (orch[r].pc = "done" /\ \A j \in 1..Len(hist.outcomes[r]) : hist.outcomes[r][j])
                      => /\ orch[r].state = "COMPLETE"
                         /\ db[orch[r].workflow_id].status = "COMPLETE"
                         /\ log[orch[r].workflow_id] = SubSeq(FourRecords, i, Len(FourRecords)))
  /\ [](\A r \in Runs :
          BeganComplete(r)
            => /\ orch[r].state = "COMPLETE"
               /\ log[orch[r].workflow_id] = <<>>
               /\ db[orch[r].workflow_id] = NewWorkflow("COMPLETE")
               /\ orch[r].event_queue = <<>>)
  /\ \A r \in Runs : BeganComplete(r) ~> (orch[r].pc = "done" /\ orch[r].ret = "True")

\* The run started on a COMPLETE instance waits for its event loop, which
\* has set the run flag again and goes on waiting for events.
C35_Witness ==
  /\ BeganComplete(1)
  /\ orch[1].pc = "await_loop"
  /\ orch[1].loop = "waiting"
  /\ orch[1].running
  /\ orch[1].event_queue = <<>>
  /\ db[1].status = "COMPLETE"

\* C36: for tasks submitted with submit_task, once the handle of every
\* submitted task has delivered its outcome, get_active_count() is 0: no
\* finished task stays in the active set, however the submitting thread,
\* which stores the handle after executor.submit, and the worker, which
\* removes it at its end, interleave.
C36_NoFinishedTaskStaysActive ==
  (/\ submitting = {}
   /\ \A t \in TaskIds : future[TaskSub(t)].st \in {"none", "done"})
    => get_active_count = 0

\* The worker finished Task 1 before submit_task stored its handle: the task
\* is COMPLETED, its handle has the outcome, and it is counted as active.
C36_Witness ==
  /\ submitting = {}
  /\ \A t \in TaskIds : future[TaskSub(t)].st = IF t = 1 THEN "done" ELSE "none"
  /\ tasks[1].status = "completed"
  /\ active_tasks = {1}
  /\ get_active_count = 1

\* C37: the cancel operation on a non-terminal instance ends by returning
\* its success result after the cancel transition was applied: the event
\* loop it waits for stops by itself once the cancel event is processed, so
\* the operation does not end by the expiry of its 2 s deadline as a
\* timeout error.
C37_CancelReturnsSuccess ==
  \A r \in Runs :
    (orch[r].kind = "cancel" /\ orch[r].pc = "done")
      => /\ orch[r].ret = "cancelled"
         /\ orch[r].ret # "TimeoutError"

\* The only call on an INIT instance was a cancel: the transition to
\* CANCELLED is applied and recorded, and the call has ended by TimeoutError.
C37_Witness ==
  /\ orch[1].kind = "cancel"
  /\ OnlyCall(1)
  /\ orch[1].pc = "done"
  /\ orch[1].ret = "TimeoutError"
  /\ orch[1].state = "CANCELLED"
  /\ db[1].status = "CANCELLED"
  /\ log[1] = <<Rec("INIT", "cancel", "CANCELLED")>>

\* C38: in every reachable state an instance whose persisted status is INIT,
\* PREPARE, EXECUTE or VALIDATE has no error_message and no completed_at; in
\* particular an instance put back to INIT after FAILED or CANCELLED, by
\* retry or by start, carries no stale error or completion time.
C38_RunningRowIsClean ==
  \A w \in WorkflowIds :
    db[w].status \in {"INIT", "PREPARE", "EXECUTE", "VALIDATE"}
      => db[w].error_message = NoneVal /\ db[w].completed_at = 0

\* A start call has put the instance that failed with "boom" back to INIT:
\* the row still carries the error text and the completion time.
C38_Witness ==
  /\ db[1].status = "INIT"
  /\ db[1].current_state = "INIT"
  /\ db[1].error_message = "boom"
  /\ db[1].completed_at > 0
  /\ log[1] = <<Rec("INIT", "fail", "FAILED")>>
  /\ orch[2].kind = "auto"
  /\ orch[2].pc = "scheduled"

\* C39: a transition applied for one workflow instance leaves every other
\* instance as it was: the row (status, current_state, retries, timestamps,
\* error_message) and the transition log of every other workflow id are the
\* same before and after, however runs on distinct instances interleave.
C39_OtherInstancesUntouched ==
  [][\A r \in Runs :
       (LoopEvent(r) \/ LogRecord(r) \/ AfterHook(r))
         => \A w \in DOMAIN db :
              w # orch[r].workflow_id => db'[w] = db[w] /\ log'[w] = log[w]]_vars

\* Two runs on two instances: instance 1 has been taken to EXECUTE while
\* instance 2, whose run waits for its first task, is still in INIT with an
\* empty log.
C39_Witness ==
  /\ orch[1].workflow_id = 1
  /\ orch[2].workflow_id = 2
  /\ db[1].status = "EXECUTE"
  /\ Len(log[1]) = 2
  /\ orch[2].pc = "await_result"
  /\ db[2] = NewWorkflow("INIT")
  /\ log[2] = <<>>

====
